---- MODULE Spec2Model ----
(***************************************************************************)
(* Model of the moneytracker ledger (app/models/transaction.py,            *)
(* app/models/account.py, app/database.py) and of the recurring schedule   *)
(* engine (app/models/recurring.py).                                       *)
(*                                                                         *)
(* Dates are the integers yyyymmdd, whose order is the order of the ISO    *)
(* strings the database compares and of the date objects the code          *)
(* compares.  Amounts are integers (the REAL column holds whole amounts in *)
(* this model; floating-point rounding is not modelled).                   *)
(***************************************************************************)
EXTENDS Integers, Sequences, FiniteSets, TLC

VARIABLES
    transactions,   \* table transactions: id -> row (committed)
    balance,        \* table accounts: id -> balance (committed)
    nextId,         \* AUTOINCREMENT counter of table transactions
    recurring,      \* table recurring_transactions: sequence, index = id
    today,          \* the clock read by datetime.now().date()
    result,         \* outcome of the last completed handler
    session         \* the open connection of a ledger operation in progress

vars == <<transactions, balance, nextId, recurring, today, result, session>>

-----------------------------------------------------------------------------
(* Bounds *)

MaxTxId == 2        \* largest transaction id handed out by the ledger operations
MaxRecTxId == 4     \* largest transaction id at which process_due starts an occurrence
MaxDefs == 2        \* largest number of recurring definitions

-----------------------------------------------------------------------------
(* Values *)

NULL == 0                       \* SQL NULL / Python None in integer columns
NoPayee == "NULL"               \* SQL NULL in the payee column
Accounts == {1, 2}              \* ids of the rows of table accounts
Types == {"income", "expense", "transfer"}
Amounts == {-50, 80}            \* amounts handed to create
SignedAmounts == {-80, 80}      \* amounts handed to create_transfer and update
LedgerDates == {20240115, 20240220}   \* dates handed to create_transfer
CreateDates == {20240115}       \* dates handed to create
UpdateDates == {20240220}       \* new dates handed to update

AccountName(id) == IF id = 1 THEN "A1" ELSE "A2"

Abs(x) == IF x < 0 THEN -x ELSE x

NoSession == [op |-> "none"]

\* The committed database as one value.
Db == [tx |-> transactions, bal |-> balance, nid |-> nextId]

-----------------------------------------------------------------------------
(* account.py *)

\* SELECT * FROM accounts WHERE id = ? : the name, or NoPayee for no row.
get_by_id(db, account_id) ==
    IF account_id \in DOMAIN db.bal THEN AccountName(account_id) ELSE NoPayee

\* UPDATE accounts SET balance = balance + ? WHERE id = ?
\* (no row matches a missing id: the statement changes nothing)
update_balance(db, account_id, amount) ==
    IF account_id \in DOMAIN db.bal
    THEN [db EXCEPT !.bal[account_id] = @ + amount]
    ELSE db

-----------------------------------------------------------------------------
(* SQL statements of transaction.py on one connection *)

Row(account_id, amount, date, type, payee, recurring_id) ==
    [account_id |-> account_id, amount |-> amount, date |-> date,
     type |-> type, payee |-> payee, recurring_id |-> recurring_id]

\* INSERT INTO transactions (...) VALUES (...)
InsertRow(db, row) ==
    [db EXCEPT !.tx = [i \in DOMAIN db.tx \cup {db.nid} |->
                          IF i = db.nid THEN row ELSE db.tx[i]],
               !.nid = @ + 1]

\* UPDATE transactions SET account_id, amount, date, type, payee WHERE id = ?
\* (recurring_id is not in the SET list)
UpdateRow(db, id, row) ==
    IF id \in DOMAIN db.tx
    THEN [db EXCEPT !.tx[id] = [row EXCEPT !.recurring_id = db.tx[id].recurring_id]]
    ELSE db

\* DELETE FROM transactions WHERE id = ?
DeleteRow(db, id) ==
    [db EXCEPT !.tx = [i \in DOMAIN db.tx \ {id} |-> db.tx[i]]]

Execute(db, stmt) ==
    CASE stmt.kind = "insert"  -> InsertRow(db, stmt.row)
      [] stmt.kind = "update"  -> UpdateRow(db, stmt.id, stmt.row)
      [] stmt.kind = "delete"  -> DeleteRow(db, stmt.id)
      [] stmt.kind = "balance" -> update_balance(db, stmt.account_id, stmt.amount)

RECURSIVE ExecuteAll(_, _)
ExecuteAll(db, stmts) ==
    IF stmts = <<>> THEN db
    ELSE ExecuteAll(Execute(db, Head(stmts)), Tail(stmts))

StmtInsert(row) == [kind |-> "insert", row |-> row]
StmtUpdate(id, row) == [kind |-> "update", id |-> id, row |-> row]
StmtDelete(id) == [kind |-> "delete", id |-> id]
StmtBalance(account_id, amount) ==
    [kind |-> "balance", account_id |-> account_id, amount |-> amount]

-----------------------------------------------------------------------------
(* transaction.py: the statements each operation issues before db.commit() *)

create_stmts(account_id, amount, date, trans_type, payee, recurring_id) ==
    << StmtInsert(Row(account_id, amount, date, trans_type, payee, recurring_id)),
       StmtBalance(account_id, amount) >>

\* Mutant of create_transfer_stmts: the destination leg is inserted with the
\* amount as passed in, and the destination balance is not credited.
create_transfer_stmts_one_sided(db, from_account_id, to_account_id, amount, date, recurring_id) ==
    << StmtInsert(Row(from_account_id, -Abs(amount), date, "transfer", "Transfer",
                      recurring_id)),
       StmtInsert(Row(to_account_id, amount, date, "transfer", "Transfer",
                      recurring_id)),
       StmtBalance(from_account_id, -Abs(amount)) >>

create_transfer_stmts(db, from_account_id, to_account_id, amount, date, recurring_id) ==
    LET from_name == get_by_id(db, from_account_id)
        to_name == get_by_id(db, to_account_id)
    IN << StmtInsert(Row(from_account_id, -Abs(amount), date, "transfer",
                         IF to_name # NoPayee THEN to_name ELSE "Transfer",
                         recurring_id)),
          StmtInsert(Row(to_account_id, Abs(amount), date, "transfer",
                         IF from_name # NoPayee THEN from_name ELSE "Transfer",
                         recurring_id)),
          StmtBalance(from_account_id, -Abs(amount)),
          StmtBalance(to_account_id, Abs(amount)) >>

\* Mutant of update_new_amount: a regular transaction stores the amount as it
\* is passed in.
update_new_amount_as_given(old_amount, amount, trans_type, transfer_account_id) ==
    IF trans_type = "transfer" /\ transfer_account_id # NULL
    THEN IF old_amount < 0 THEN -Abs(amount) ELSE Abs(amount)
    ELSE amount

\* Mutant of update_new_amount: an edited transfer leg is always stored as the
\* source leg.
update_new_amount_always_source(old_amount, amount, trans_type, transfer_account_id) ==
    IF trans_type = "transfer" /\ transfer_account_id # NULL
    THEN -Abs(amount)
    ELSE IF trans_type = "expense" THEN -Abs(amount) ELSE Abs(amount)

\* The amount update() stores (sign normalisation, lines 106-118).
update_new_amount(old_amount, amount, trans_type, transfer_account_id) ==
    IF trans_type = "transfer" /\ transfer_account_id # NULL
    THEN IF old_amount < 0 THEN -Abs(amount) ELSE Abs(amount)
    ELSE IF trans_type = "expense" THEN -Abs(amount) ELSE Abs(amount)

\* The payee update() stores (lines 107-115).
update_payee(db, old_amount, account_id, trans_type, payee, transfer_account_id) ==
    IF trans_type = "transfer" /\ transfer_account_id # NULL
    THEN LET name == IF old_amount < 0 THEN get_by_id(db, transfer_account_id)
                                       ELSE get_by_id(db, account_id)
         IN IF name # NoPayee THEN name ELSE "Transfer"
    ELSE payee

\* Mutant of update_balance_stmts: the new amount is applied in full to the
\* account although the account did not change.
update_balance_stmts_no_delta(old_account_id, old_amount, account_id, new_amount) ==
    IF old_account_id = account_id
    THEN << StmtBalance(old_account_id, new_amount) >>
    ELSE << StmtBalance(old_account_id, -old_amount),
            StmtBalance(account_id, new_amount) >>

\* Balance reconciliation of update() (lines 128-133).
update_balance_stmts(old_account_id, old_amount, account_id, new_amount) ==
    IF old_account_id = account_id
    THEN << StmtBalance(old_account_id, new_amount - old_amount) >>
    ELSE << StmtBalance(old_account_id, -old_amount),
            StmtBalance(account_id, new_amount) >>

\* update() of a row that exists.
update_stmts(db, transaction_id, account_id, amount, date, trans_type, payee, transfer_account_id) ==
    LET current == db.tx[transaction_id]
        new_amount == update_new_amount(current.amount, amount, trans_type,
                                        transfer_account_id)
        new_payee == update_payee(db, current.amount, account_id, trans_type,
                                  payee, transfer_account_id)
    IN << StmtUpdate(transaction_id,
                     Row(account_id, new_amount, date, trans_type, new_payee, NULL)) >>
       \o update_balance_stmts(current.account_id, current.amount,
                               account_id, new_amount)

\* Mutant of delete_stmts: the row is deleted and the balance left as it was.
delete_stmts_no_reversal(db, transaction_id) == << StmtDelete(transaction_id) >>

\* Mutant of delete_stmts: the amount is added to the balance once more.
delete_stmts_adds_amount(db, transaction_id) ==
    << StmtDelete(transaction_id),
       StmtBalance(db.tx[transaction_id].account_id, db.tx[transaction_id].amount) >>

\* delete() of a row that exists.
delete_stmts(db, transaction_id) ==
    LET trans == db.tx[transaction_id]
    IN << StmtDelete(transaction_id),
          StmtBalance(trans.account_id, -trans.amount) >>

-----------------------------------------------------------------------------
(* database.py: the connection of `with Database.get_db() as db` *)

\* db.commit(): the statements executed on the connection become the
\* committed database.
commit(committed, view) == view

\* Mutant of close: closing the connection keeps what was executed on it.
close_keeps_writes(committed, view) == view

\* db.close() in the finally clause without a commit (an exception or a
\* crash before db.commit()): the open transaction is rolled back.
close(committed, view) == committed

\* at = the clock when the handler was called
Ok(op, value) == [op |-> op, status |-> "ok", value |-> value, at |-> today]
Raised(op) == [op |-> op, status |-> "raised", value |-> 0, at |-> today]

Store(db) ==
    /\ transactions' = db.tx
    /\ balance' = db.bal
    /\ nextId' = db.nid

-----------------------------------------------------------------------------
(* transaction.py: the ledger operations, each run to completion *)

\* create(): returns cursor.lastrowid
Create(account_id, amount, date, trans_type, payee, recurring_id) ==
    /\ session = NoSession
    /\ nextId <= MaxTxId
    /\ Store(commit(Db, ExecuteAll(Db,
             create_stmts(account_id, amount, date, trans_type, payee, recurring_id))))
    /\ result' = Ok("create", nextId)
    /\ UNCHANGED <<recurring, today, session>>

\* create_transfer(): returns None (value 0)
CreateTransfer(from_account_id, to_account_id, amount, date, recurring_id) ==
    /\ session = NoSession
    /\ nextId + 1 <= MaxTxId
    /\ Store(commit(Db, ExecuteAll(Db,
             create_transfer_stmts(Db, from_account_id, to_account_id, amount,
                                   date, recurring_id))))
    /\ result' = Ok("create_transfer", 0)
    /\ UNCHANGED <<recurring, today, session>>

\* update(): returns False (0) for an unknown id, else True (1)
Update(transaction_id, account_id, amount, date, trans_type, payee, transfer_account_id) ==
    /\ session = NoSession
    /\ IF transaction_id \notin DOMAIN transactions
       THEN /\ result' = Ok("update", 0)
            /\ UNCHANGED <<transactions, balance, nextId>>
       ELSE /\ Store(commit(Db, ExecuteAll(Db,
                     update_stmts(Db, transaction_id, account_id, amount, date,
                                  trans_type, payee, transfer_account_id))))
            /\ result' = Ok("update", 1)
    /\ UNCHANGED <<recurring, today, session>>

\* Mutant of Delete: an unknown id raises.
Delete_unknown_id_raises(transaction_id) ==
    /\ session = NoSession
    /\ IF transaction_id \notin DOMAIN transactions
       THEN /\ result' = Raised("delete")
            /\ UNCHANGED <<transactions, balance, nextId>>
       ELSE /\ Store(commit(Db, ExecuteAll(Db, delete_stmts(Db, transaction_id))))
            /\ result' = Ok("delete", 1)
    /\ UNCHANGED <<recurring, today, session>>

\* delete(): returns True (1) if the row existed, else False (0)
Delete(transaction_id) ==
    /\ session = NoSession
    /\ IF transaction_id \notin DOMAIN transactions
       THEN /\ result' = Ok("delete", 0)
            /\ UNCHANGED <<transactions, balance, nextId>>
       ELSE /\ Store(commit(Db, ExecuteAll(Db, delete_stmts(Db, transaction_id))))
            /\ result' = Ok("delete", 1)
    /\ UNCHANGED <<recurring, today, session>>

TxIds == 1..MaxTxId

CreateAny ==
    \E a \in Accounts, m \in Amounts, d \in CreateDates, t \in Types :
        Create(a, m, d, t, NoPayee, NULL)

CreateTransferAny ==
    \E a \in Accounts, b \in Accounts, m \in SignedAmounts, d \in LedgerDates,
       r \in {NULL, 1} :
        CreateTransfer(a, b, m, d, r)

UpdateAny ==
    \E i \in TxIds, a \in Accounts, m \in SignedAmounts, d \in UpdateDates,
       t \in Types, x \in {NULL} \cup Accounts :
        \* a transfer_account_id is only read when the type is transfer
        /\ x # NULL => t = "transfer"
        /\ Update(i, a, m, d, t, NoPayee, x)

DeleteAny == \E i \in TxIds : Delete(i)

Init ==
    /\ transactions = << >>
    /\ balance = [a \in Accounts |-> 0]
    /\ nextId = 1
    /\ recurring = << >>
    /\ today = 20240110
    /\ result = Ok("init", 0)
    /\ session = NoSession

Next ==
    \/ CreateAny
    \/ CreateTransferAny
    \/ UpdateAny
    \/ DeleteAny

Spec == Init /\ [][Next]_vars

-----------------------------------------------------------------------------
(* Properties of the ledger *)

RECURSIVE SumAmounts(_, _)
SumAmounts(tx, ids) ==
    IF ids = {} THEN 0
    ELSE LET i == CHOOSE j \in ids : TRUE
         IN tx[i].amount + SumAmounts(tx, ids \ {i})

AccountSum(tx, a) == SumAmounts(tx, {i \in DOMAIN tx : tx[i].account_id = a})

\* C1: every existing account's stored balance equals the sum of the amounts
\* of the transaction rows of that account, after any sequence of completed
\* create, create_transfer, update and delete calls.
C1_BalanceInvariant ==
    \A a \in Accounts : balance[a] = AccountSum(transactions, a)

\* A state where both accounts carry rows and an update or delete has run.
C1_Witness ==
    /\ \A a \in Accounts : \E i \in DOMAIN transactions : transactions[i].account_id = a
    /\ result.op \in {"update", "delete"} /\ result.value = 1
    /\ \E a \in Accounts : balance[a] # 0

Delta(x, a, amount) == IF x = a THEN amount ELSE 0

\* C3: create_transfer(A, B, amount, d) inserts exactly two rows, -|amount| on
\* A and +|amount| on B, both of type transfer, dated d and carrying the same
\* recurring_id; A's balance changes by -|amount|, B's by +|amount|, and no
\* other balance changes.
C3_TransferSymmetry ==
    [][\A a \in Accounts, b \in Accounts, m \in SignedAmounts, d \in LedgerDates,
          r \in {NULL, 1} :
         (result'.op = "create_transfer" /\ CreateTransfer(a, b, m, d, r)) =>
           LET new == DOMAIN transactions' \ DOMAIN transactions
           IN /\ Cardinality(new) = 2
              /\ DOMAIN transactions \subseteq DOMAIN transactions'
              /\ \A i \in DOMAIN transactions : transactions'[i] = transactions[i]
              /\ \E i \in new, j \in new :
                    /\ i # j
                    /\ transactions'[i].account_id = a
                    /\ transactions'[i].amount = -Abs(m)
                    /\ transactions'[j].account_id = b
                    /\ transactions'[j].amount = Abs(m)
              /\ \A i \in new :
                    /\ transactions'[i].type = "transfer"
                    /\ transactions'[i].date = d
                    /\ transactions'[i].recurring_id = r
              /\ \A x \in Accounts :
                    balance'[x] = balance[x] + Delta(x, a, -Abs(m)) + Delta(x, b, Abs(m))
      ]_vars

\* A transfer between two different accounts has been committed.
C3_Witness ==
    /\ result.op = "create_transfer"
    /\ \E i \in DOMAIN transactions, j \in DOMAIN transactions :
          /\ transactions[i].type = "transfer" /\ transactions[j].type = "transfer"
          /\ transactions[i].account_id # transactions[j].account_id
          /\ transactions[i].amount = -80 /\ transactions[j].amount = 80
          /\ transactions[i].recurring_id = 1 /\ transactions[j].recurring_id = 1
    /\ balance[1] + balance[2] = 0 /\ balance[1] # 0

\* C4: update of a row with stored amount o on account X to normalized amount
\* n on account Y changes X's balance by n - o if X = Y, else X's by -o and
\* Y's by +n, and no other balance; -50 updated to expense 80 on the same
\* account stores -80 and lowers the balance by exactly 30.
C4_UpdateReconciliation ==
    [][result' = Ok("update", 1) =>
        \* update writes one row i: o, x are its amount and account before,
        \* n, y the amount and account stored
        /\ \E i \in DOMAIN transactions :
             /\ i \in DOMAIN transactions'
             /\ \A j \in DOMAIN transactions \ {i} : transactions'[j] = transactions[j]
             /\ LET o == transactions[i].amount
                    x == transactions[i].account_id
                    n == transactions'[i].amount
                    y == transactions'[i].account_id
                IN \A z \in Accounts :
                      balance'[z] = balance[z] +
                          (IF x = y THEN Delta(z, x, n - o)
                                    ELSE Delta(z, x, -o) + Delta(z, y, n))
        /\ \A i \in DOMAIN transactions, d \in UpdateDates :
             LET x == transactions[i].account_id
             IN (/\ transactions[i].amount = -50
                 /\ x \in Accounts
                 /\ Update(i, x, 80, d, "expense", NoPayee, NULL)) =>
                   (transactions'[i].amount = -80 /\ balance'[x] = balance[x] - 30)
      ]_vars

\* The row created as -50 has been updated to expense 80 on its account.
C4_Witness ==
    /\ result = Ok("update", 1)
    /\ DOMAIN transactions = {1} /\ nextId = 2
    /\ transactions[1].amount = -80 /\ transactions[1].type = "expense"
    /\ transactions[1].account_id = 1
    /\ balance[1] = -80 /\ balance[2] = 0

\* The ledger of regular (income and expense) transactions: the same
\* operations on fewer inputs.
CreateRegular ==
    \E a \in Accounts, m \in Amounts, t \in {"expense", "income"} :
        Create(a, m, 20240115, t, NoPayee, NULL)

UpdateRegular ==
    \E i \in TxIds, a \in Accounts, m \in SignedAmounts, d \in UpdateDates,
       t \in {"expense", "income"} :
        Update(i, a, m, d, t, NoPayee, NULL)

NextRegular ==
    \/ CreateRegular
    \/ UpdateRegular
    \/ DeleteAny

SpecRegular == Init /\ [][NextRegular]_vars

\* C12: update and delete called with a transaction id that does not exist
\* return false without raising and leave every transaction row and every
\* account balance unchanged.
C12_UnknownId ==
    [][/\ result'.op = "delete" =>
            \A i \in TxIds :
               (i \notin DOMAIN transactions /\ Delete(i)) =>
                  /\ result' = Ok("delete", 0)
                  /\ UNCHANGED <<transactions, balance, nextId>>
       /\ result'.op = "update" =>
            \A i \in TxIds :
               i \notin DOMAIN transactions =>
                  \A a \in Accounts, m \in SignedAmounts, d \in UpdateDates,
                     t \in Types, x \in {NULL} \cup Accounts :
                     Update(i, a, m, d, t, NoPayee, x) =>
                        /\ result' = Ok("update", 0)
                        /\ UNCHANGED <<transactions, balance, nextId>>
      ]_vars

\* update has returned false for the id of a row that was deleted, with
\* another row and its balance in place.
C12_Witness ==
    /\ result = Ok("update", 0)
    /\ DOMAIN transactions = {2} /\ nextId = 3
    /\ balance[transactions[2].account_id] = transactions[2].amount

\* C13: delete of an existing transaction with amount a on account X removes
\* exactly that row, changes X's balance by -a, changes no other row and no
\* other balance, and returns true.
C13_DeleteReversal ==
    [][result'.op = "delete" =>
         \A i \in DOMAIN transactions :
            Delete(i) =>
              /\ result' = Ok("delete", 1)
              /\ DOMAIN transactions' = DOMAIN transactions \ {i}
              /\ \A j \in DOMAIN transactions \ {i} : transactions'[j] = transactions[j]
              /\ \A z \in Accounts :
                   balance'[z] = balance[z] +
                       Delta(z, transactions[i].account_id, -transactions[i].amount)
      ]_vars

\* The first of two rows on different accounts has been deleted: its account
\* is back at 0 and the other row and balance are in place.
C13_Witness ==
    /\ result = Ok("delete", 1)
    /\ DOMAIN transactions = {2} /\ nextId = 3
    /\ transactions[2].account_id = 2 /\ transactions[2].amount = 80
    /\ balance[1] = 0 /\ balance[2] = 80

\* C14: update stores amount -|new_amount| when new_type is expense and
\* +|new_amount| when new_type is income, whatever the sign of the amount
\* passed in and whatever the sign of the old stored amount.
C14_SignNormalization ==
    [][result' = Ok("update", 1) =>
         \A i \in DOMAIN transactions, t \in {"expense", "income"} :
            \* update(i, ..., t, ...) stores type t on row i
            (i \in DOMAIN transactions' /\ transactions'[i].type = t) =>
               \A a \in {transactions'[i].account_id}, d \in {transactions'[i].date},
                  m \in SignedAmounts, x \in {NULL} \cup Accounts :
                  Update(i, a, m, d, t, NoPayee, x) =>
                     transactions'[i].amount = IF t = "expense" THEN -Abs(m) ELSE Abs(m)
      ]_vars

\* An update to income has stored +80 on a row, next to a row updated to
\* expense that stores -80.
C14_Witness ==
    /\ result = Ok("update", 1)
    /\ DOMAIN transactions = {1, 2}
    /\ transactions[1].type = "income" /\ transactions[1].amount = 80
    /\ transactions[1].date = 20240220
    /\ transactions[2].type = "expense" /\ transactions[2].amount = -80
    /\ transactions[2].date = 20240220

-----------------------------------------------------------------------------
(* The ledger operations statement by statement: each one runs on its own   *)
(* connection, and an exception or a crash may end it before db.commit().   *)

Session(op, stmts, value) ==
    [op |-> op, start |-> Db, stmts |-> stmts, done |-> 0, view |-> Db,
     value |-> value]

Open(op, stmts, value) ==
    /\ session = NoSession
    /\ session' = Session(op, stmts, value)
    /\ UNCHANGED <<transactions, balance, nextId, recurring, today, result>>

BeginCreate ==
    \E a \in Accounts, m \in Amounts, d \in {20240115} :
        /\ nextId <= MaxTxId
        /\ Open("create", create_stmts(a, m, d, "expense", NoPayee, NULL), nextId)

BeginCreateTransfer ==
    \E a \in Accounts, b \in Accounts, d \in {20240115} :
        /\ nextId + 1 <= MaxTxId
        /\ Open("create_transfer", create_transfer_stmts(Db, a, b, 80, d, NULL), 0)

BeginUpdate ==
    \E i \in DOMAIN transactions, a \in Accounts, t \in {"income", "expense"} :
        Open("update", update_stmts(Db, i, a, 80, 20240220, t, NoPayee, NULL), 1)

BeginDelete ==
    \E i \in DOMAIN transactions : Open("delete", delete_stmts(Db, i), 1)

\* db.execute(...) of the next statement: visible on the connection only
ExecuteNext ==
    /\ session # NoSession
    /\ session.done < Len(session.stmts)
    /\ session' = [session EXCEPT
                      !.view = Execute(@, session.stmts[session.done + 1]),
                      !.done = @ + 1]
    /\ UNCHANGED <<transactions, balance, nextId, recurring, today, result>>

\* db.commit() and the return
Commit ==
    /\ session # NoSession
    /\ session.done = Len(session.stmts)
    /\ Store(commit(Db, session.view))
    /\ result' = Ok(session.op, session.value)
    /\ session' = NoSession
    /\ UNCHANGED <<recurring, today>>

\* An exception or a crash before db.commit(): the connection is closed (or
\* lost) with its transaction open.  value = the statements executed so far.
Fail ==
    /\ session # NoSession
    /\ Store(close(Db, session.view))
    /\ result' = [Raised(session.op) EXCEPT !.value = session.done]
    /\ session' = NoSession
    /\ UNCHANGED <<recurring, today>>

NextCrash ==
    \/ BeginCreate
    \/ BeginCreateTransfer
    \/ BeginUpdate
    \/ BeginDelete
    \/ ExecuteNext
    \/ Commit
    \/ Fail

SpecCrash == Init /\ [][NextCrash]_vars

\* C2: every ledger operation is atomic: while it runs, and if it raises or
\* the process crashes before its commit, the committed database is the one
\* from before the operation; when it commits, all its statements take effect
\* together; the balance invariant holds of the committed data at every
\* crash point.
C2_Atomic ==
    /\ [](\A a \in Accounts : balance[a] = AccountSum(transactions, a))
    /\ [](session # NoSession => Db = session.start)
    /\ [][(session # NoSession /\ session' = NoSession) =>
            \/ /\ result'.status = "ok"
               /\ Db' = ExecuteAll(session.start, session.stmts)
            \/ /\ result'.status = "raised"
               /\ Db' = session.start
         ]_vars

\* A transfer failed after one to three of its four statements, and the
\* committed database shows none of them.
C2_Witness ==
    /\ result.op = "create_transfer" /\ result.status = "raised"
    /\ result.value \in 1..3
    /\ DOMAIN transactions = {} /\ nextId = 1
    /\ session = NoSession

-----------------------------------------------------------------------------
(* Calendar: datetime.date as the integer yyyymmdd *)

Year(d) == d \div 10000
Month(d) == (d \div 100) % 100
Day(d) == d % 100
MkDate(y, m, d) == y * 10000 + m * 100 + d

IsLeap(y) == (y % 4 = 0 /\ y % 100 # 0) \/ y % 400 = 0

DaysInMonth(y, m) ==
    IF m = 2 THEN (IF IsLeap(y) THEN 29 ELSE 28)
    ELSE IF m \in {4, 6, 9, 11} THEN 30 ELSE 31

\* The value standing for the ValueError that date.replace raises.
ValueError == -1

\* date.replace(year=y, month=m): the day is kept; a day the month does not
\* have raises ValueError ("day is out of range for month").
replace(date, y, m) ==
    IF Day(date) <= DaysInMonth(y, m) THEN MkDate(y, m, Day(date)) ELSE ValueError

\* date + timedelta(days=1)
NextDay(date) ==
    IF Day(date) < DaysInMonth(Year(date), Month(date)) THEN date + 1
    ELSE IF Month(date) < 12 THEN MkDate(Year(date), Month(date) + 1, 1)
    ELSE MkDate(Year(date) + 1, 1, 1)

\* date + timedelta(days=n)
RECURSIVE AddDays(_, _)
AddDays(date, n) == IF n = 0 THEN date ELSE AddDays(NextDay(date), n - 1)

-----------------------------------------------------------------------------
(* recurring.py *)

Frequencies == {"daily", "weekly", "biweekly", "monthly", "quarterly", "yearly"}

\* _calculate_next_date(last_date, frequency)
calculate_next_date(last_date, frequency) ==
    CASE frequency = "daily"     -> AddDays(last_date, 1)
      [] frequency = "weekly"    -> AddDays(last_date, 7)
      [] frequency = "biweekly"  -> AddDays(last_date, 14)
      [] frequency = "monthly"   ->
            IF Month(last_date) = 12
            THEN replace(last_date, Year(last_date) + 1, 1)
            ELSE replace(last_date, Year(last_date), Month(last_date) + 1)
      [] frequency = "quarterly" ->
            IF Month(last_date) + 3 > 12
            THEN replace(last_date, Year(last_date) + 1, Month(last_date) + 3 - 12)
            ELSE replace(last_date, Year(last_date), Month(last_date) + 3)
      [] frequency = "yearly"    -> replace(last_date, Year(last_date) + 1, Month(last_date))
      [] OTHER                   -> last_date

\* A row of recurring_transactions as create() inserts it (lines 34-40):
\* last_processed = start_date, is_active by its column default.
Definition(account_id, amount, trans_type, payee, frequency, start_date, end_date, increment_amount) ==
    [account_id |-> account_id, amount |-> amount, type |-> trans_type,
     payee |-> payee, frequency |-> frequency, start_date |-> start_date,
     end_date |-> end_date, last_processed |-> start_date,
     increment_amount |-> increment_amount, is_active |-> TRUE]

\* Python truth value of r['payee']
Truthy(payee) == payee \notin {NoPayee, ""}

\* SELECT id FROM accounts WHERE name = ? (fetchone)
account_by_name(db, name) ==
    IF \E a \in DOMAIN db.bal : AccountName(a) = name
    THEN CHOOSE a \in DOMAIN db.bal : AccountName(a) = name
    ELSE NULL

\* Mutant of due_query: the query does not test is_active.
due_query_ignores_active(rec, now) ==
    SelectSeq([i \in 1..Len(rec) |-> i],
              LAMBDA i : rec[i].end_date = NULL \/ rec[i].end_date >= now)

\* Mutant of due_query: the query does not test end_date.
due_query_ignores_end_date(rec, now) ==
    SelectSeq([i \in 1..Len(rec) |-> i], LAMBDA i : rec[i].is_active)

\* SELECT * FROM recurring_transactions
\* WHERE is_active = 1 AND (end_date IS NULL OR end_date >= today)
due_query(rec, now) ==
    SelectSeq([i \in 1..Len(rec) |-> i],
              LAMBDA i : /\ rec[i].is_active
                         /\ (rec[i].end_date = NULL \/ rec[i].end_date >= now))

\* Mutant of materialize: an occurrence whose destination account is not
\* found is dropped.
materialize_drops_unresolved(db, r, id, current_amount, next_date) ==
    IF r.type = "transfer" /\ Truthy(r.payee)
    THEN LET dest_account == account_by_name(db, r.payee)
         IN IF dest_account # NULL
            THEN commit(db, ExecuteAll(db,
                     create_transfer_stmts(db, r.account_id, dest_account,
                                           Abs(current_amount), next_date, id)))
            ELSE db
    ELSE commit(db, ExecuteAll(db,
             create_stmts(r.account_id,
                          IF r.type = "expense" THEN -Abs(current_amount)
                                                ELSE Abs(current_amount),
                          next_date, r.type, r.payee, id)))

\* Lines 84-118: the ledger call that materializes one occurrence; the call
\* commits on its own connection.
materialize(db, r, id, current_amount, next_date) ==
    IF r.type = "transfer" /\ Truthy(r.payee)
    THEN LET dest_account == account_by_name(db, r.payee)
         IN IF dest_account # NULL
            THEN commit(db, ExecuteAll(db,
                     create_transfer_stmts(db, r.account_id, dest_account,
                                           Abs(current_amount), next_date, id)))
            ELSE commit(db, ExecuteAll(db,
                     create_stmts(r.account_id, -Abs(current_amount), next_date,
                                  r.type, r.payee, id)))
    ELSE commit(db, ExecuteAll(db,
             create_stmts(r.account_id,
                          IF r.type = "expense" THEN -Abs(current_amount)
                                                ELSE Abs(current_amount),
                          next_date, r.type, r.payee, id)))

\* Mutant of catch_up: the increment is applied after the occurrence is
\* materialized.
RECURSIVE catch_up_increment_after(_, _, _, _, _)
catch_up_increment_after(st, r, id, next_date, now) ==
    IF next_date = ValueError THEN [st EXCEPT !.status = "raised"]
    ELSE IF ~(next_date <= now) THEN st
    ELSE IF st.db.nid > MaxRecTxId THEN [st EXCEPT !.status = "capped"]
    ELSE catch_up_increment_after(
             [db |-> materialize(st.db, r, id, st.current_amount, next_date),
              last_processed |-> next_date,
              current_amount |-> st.current_amount + r.increment_amount,
              processed |-> st.processed + 1,
              status |-> "ok"],
             r, id, calculate_next_date(next_date, r.frequency), now)

\* Mutant of catch_up: processed counts the rows inserted.
RECURSIVE catch_up_counts_rows(_, _, _, _, _)
catch_up_counts_rows(st, r, id, next_date, now) ==
    IF next_date = ValueError THEN [st EXCEPT !.status = "raised"]
    ELSE IF ~(next_date <= now) THEN st
    ELSE IF st.db.nid > MaxRecTxId THEN [st EXCEPT !.status = "capped"]
    ELSE LET current_amount == st.current_amount + r.increment_amount
             db == materialize(st.db, r, id, current_amount, next_date)
         IN catch_up_counts_rows(
                [db |-> db,
                 last_processed |-> next_date,
                 current_amount |-> current_amount,
                 processed |-> st.processed + (db.nid - st.db.nid),
                 status |-> "ok"],
                r, id, calculate_next_date(next_date, r.frequency), now)

\* Lines 80-124: the loop `while next_date <= today`.  st carries db,
\* last_processed, current_amount, processed and how the loop ended: "ok",
\* "raised" (the date computation raised) or "capped" (the loop would hand
\* out a transaction id beyond MaxRecTxId).
RECURSIVE catch_up(_, _, _, _, _)
catch_up(st, r, id, next_date, now) ==
    IF next_date = ValueError THEN [st EXCEPT !.status = "raised"]
    ELSE IF ~(next_date <= now) THEN st
    ELSE IF st.db.nid > MaxRecTxId THEN [st EXCEPT !.status = "capped"]
    ELSE LET current_amount == st.current_amount + r.increment_amount
         IN catch_up([db |-> materialize(st.db, r, id, current_amount, next_date),
                      last_processed |-> next_date,
                      current_amount |-> current_amount,
                      processed |-> st.processed + 1,
                      status |-> "ok"],
                     r, id, calculate_next_date(next_date, r.frequency), now)

\* Mutant of store_watermark: the watermark and the amount are not stored.
store_watermark_never(rec, id, original_last_processed, last_processed, current_amount) == rec

\* Mutant of store_watermark: the watermark is stored without the amount.
store_watermark_without_amount(rec, id, original_last_processed, last_processed, current_amount) ==
    IF last_processed # original_last_processed
    THEN [rec EXCEPT ![id].last_processed = last_processed]
    ELSE rec

\* Lines 126-133: the watermark and the amount are stored when the loop
\* advanced last_processed.
store_watermark(rec, id, original_last_processed, last_processed, current_amount) ==
    IF last_processed # original_last_processed
    THEN [rec EXCEPT ![id].last_processed = last_processed,
                     ![id].amount = current_amount]
    ELSE rec

\* Lines 68-133: one iteration of `for r in recurring`; r is the row as loaded.
process_definition(pass, r, id, now) ==
    LET st == catch_up([db |-> pass.db, last_processed |-> r.last_processed,
                        current_amount |-> r.amount, processed |-> pass.processed,
                        status |-> "ok"],
                       r, id, calculate_next_date(r.last_processed, r.frequency), now)
    IN [db |-> st.db,
        rec |-> IF st.status = "ok"
                THEN store_watermark(pass.rec, id, r.last_processed,
                                     st.last_processed, st.current_amount)
                ELSE pass.rec,
        processed |-> st.processed,
        status |-> st.status]

\* Lines 68-135: the loop over the loaded rows; an exception leaves the loop.
RECURSIVE process_loop(_, _, _, _)
process_loop(pass, loaded, ids, now) ==
    IF ids = << >> \/ pass.status # "ok" THEN pass
    ELSE process_loop(process_definition(pass, loaded[Head(ids)], Head(ids), now),
                      loaded, Tail(ids), now)

\* process_due() on clock value `now`
process_due(db, rec, now) ==
    process_loop([db |-> db, rec |-> rec, processed |-> 0, status |-> "ok"],
                 rec, due_query(rec, now), now)

-----------------------------------------------------------------------------
(* The recurring schedule engine: definitions are created and deactivated,   *)
(* the clock advances, and process_due runs to completion.                   *)

ClockDates == {20240110, 20240116, 20240301, 20240420}

\* The definitions handed to create().
RecurringInputs ==
    { Definition(1, 100, "expense", NoPayee, "monthly", 20240115, NULL, 10),
      Definition(1, 100, "income", NoPayee, "monthly", 20240115, 20240320, 0),
      Definition(1, 100, "transfer", "A2", "quarterly", 20240115, NULL, 0),
      Definition(1, 100, "transfer", "Nobody", "quarterly", 20240115, NULL, 0),
      Definition(2, 100, "expense", NoPayee, "monthly", 20231231, NULL, 10),
      Definition(2, 40, "income", NoPayee, "daily", 20240115, 20240116, -60) }

\* RecurringModel.create(): returns cursor.lastrowid
RecurringCreate(definition) ==
    /\ session = NoSession
    /\ Len(recurring) < MaxDefs
    /\ recurring' = Append(recurring, definition)
    /\ result' = Ok("recurring_create", Len(recurring) + 1)
    /\ UNCHANGED <<transactions, balance, nextId, today, session>>

\* Mutant of Deactivate: the statement flips is_active.
Deactivate_toggles(recurring_id) ==
    /\ session = NoSession
    /\ recurring' = IF recurring_id \in DOMAIN recurring
                    THEN [recurring EXCEPT ![recurring_id].is_active = ~@]
                    ELSE recurring
    /\ result' = Ok("deactivate", 0)
    /\ UNCHANGED <<transactions, balance, nextId, today, session>>

\* RecurringModel.deactivate(): UPDATE ... SET is_active = 0 WHERE id = ?
Deactivate(recurring_id) ==
    /\ session = NoSession
    /\ recurring' = IF recurring_id \in DOMAIN recurring
                    THEN [recurring EXCEPT ![recurring_id].is_active = FALSE]
                    ELSE recurring
    /\ result' = Ok("deactivate", 0)
    /\ UNCHANGED <<transactions, balance, nextId, today, session>>

\* RecurringModel.process_due(): returns processed, or raises what the date
\* computation raised; what was committed before the exception stays.
ProcessDue ==
    /\ session = NoSession
    /\ LET pass == process_due(Db, recurring, today)
       IN /\ pass.status # "capped"
          /\ Store(pass.db)
          /\ recurring' = pass.rec
          /\ result' = IF pass.status = "ok" THEN Ok("process_due", pass.processed)
                                             ELSE Raised("process_due")
    /\ UNCHANGED <<today, session>>

\* Time passes.
Tick ==
    /\ \E d \in ClockDates : d > today /\ today' = d
    /\ UNCHANGED <<transactions, balance, nextId, recurring, result, session>>

RecurringCreateAny == \E definition \in RecurringInputs : RecurringCreate(definition)

DeactivateAny == \E id \in 1..MaxDefs : Deactivate(id)

NextRecurring ==
    \/ RecurringCreateAny
    \/ DeactivateAny
    \/ ProcessDue
    \/ Tick

SpecRecurring == Init /\ [][NextRecurring]_vars

-----------------------------------------------------------------------------
(* Properties of the recurring schedule engine *)

\* The dates advance^k(w), k >= 1, that are <= now, in increasing order (up to
\* the first date that cannot be computed).
RECURSIVE DueDates(_, _, _)
DueDates(w, f, now) ==
    LET next == calculate_next_date(w, f)
    IN IF next = ValueError \/ next > now \/ next = w THEN << >>
       ELSE <<next>> \o DueDates(next, f, now)

\* Whether computing the due dates of a definition raises.
RECURSIVE DueDatesRaise(_, _, _)
DueDatesRaise(w, f, now) ==
    LET next == calculate_next_date(w, f)
    IN IF next = ValueError THEN TRUE
       ELSE IF next > now \/ next = w THEN FALSE
       ELSE DueDatesRaise(next, f, now)

RECURSIVE SortedSeq(_)
SortedSeq(S) ==
    IF S = {} THEN << >>
    ELSE LET m == CHOOSE x \in S : \A y \in S : x <= y
         IN <<m>> \o SortedSeq(S \ {m})

\* The rows a step inserts.
NewRows == DOMAIN transactions' \ DOMAIN transactions

\* Row i is the destination leg of a transfer pair a step inserts.
IsDestinationLeg(i) ==
    /\ i - 1 \in NewRows
    /\ transactions'[i].type = "transfer" /\ transactions'[i - 1].type = "transfer"
    /\ transactions'[i].recurring_id = transactions'[i - 1].recurring_id
    /\ transactions'[i].date = transactions'[i - 1].date
    /\ transactions'[i - 1].amount < 0
    /\ transactions'[i].amount = -transactions'[i - 1].amount

\* The occurrences a step materializes for definition id, in insertion order:
\* one row each (the source leg for a transfer pair).
Occurrences(id) ==
    SortedSeq({i \in NewRows : /\ transactions'[i].recurring_id = id
                               /\ ~IsDestinationLeg(i)})

\* C5: for an active definition with a known frequency and last_processed = w,
\* one process_due call on day today materializes exactly one occurrence for
\* each date advance^k(w) <= today, in increasing date order, none for any
\* other date, and stores last_processed = the largest such date.
C5_CatchUp ==
    [][ProcessDue =>
        \A id \in DOMAIN recurring :
          (/\ recurring[id].is_active /\ recurring[id].frequency \in Frequencies
           \* already for the definitions with no end_date
           /\ recurring[id].end_date = NULL) =>
            LET due == DueDates(recurring[id].last_processed,
                                recurring[id].frequency, today)
                occ == Occurrences(id)
            IN /\ Len(occ) = Len(due)
               /\ \A k \in 1..Len(occ) : transactions'[occ[k]].date = due[k]
               /\ due # << >> => recurring'[id].last_processed = due[Len(due)]
      ]_vars

\* C6: when process_due catches up n >= 1 periods for a definition with stored
\* amount a and increment i (it advances the definition's watermark), the k-th
\* materialized occurrence, in date order, has magnitude |a + k*i| and the
\* amount stored after the pass is a + n*i.
C6_Increment ==
    [][ProcessDue =>
        \A id \in DOMAIN recurring :
          recurring'[id].last_processed # recurring[id].last_processed =>
            LET a == recurring[id].amount
                i == recurring[id].increment_amount
                occ == Occurrences(id)
                n == Len(occ)
            IN /\ n >= 1
               /\ \A k \in 1..n :
                     /\ Abs(transactions'[occ[k]].amount) = Abs(a + k * i)
                     /\ k > 1 => transactions'[occ[k - 1]].date < transactions'[occ[k]].date
               /\ recurring'[id].amount = a + n * i
      ]_vars

\* Base 100, increment 10, three periods caught up in one pass: 110, 120, 130
\* and 130 stored.
C6_Witness ==
    /\ result = Ok("process_due", 3)
    /\ Len(recurring) >= 1
    /\ recurring[1].amount = 130 /\ recurring[1].increment_amount = 10
    /\ recurring[1].last_processed = 20240415
    /\ DOMAIN transactions = {1, 2, 3}
    /\ transactions[1].amount = -110 /\ transactions[1].date = 20240215
    /\ transactions[2].amount = -120 /\ transactions[2].date = 20240315
    /\ transactions[3].amount = -130 /\ transactions[3].date = 20240415

\* C7: a process_due call that directly follows a completed process_due call
\* with the same clock returns 0, inserts no transaction and changes no
\* balance and no definition.
C7_Idempotent ==
    [][(/\ result.op = "process_due" /\ result.status = "ok"
        /\ result.at = today
        /\ ProcessDue) =>
          /\ result' = Ok("process_due", 0)
          /\ UNCHANGED <<transactions, balance, nextId, recurring>>
      ]_vars

\* A pass has just completed with occurrences materialized, and the call that
\* follows with the same clock is about to return 0.
C7_Witness ==
    /\ result.op = "process_due" /\ result.status = "ok" /\ result.value >= 1
    /\ result.at = today
    /\ process_due(Db, recurring, today).processed = 0
    /\ process_due(Db, recurring, today).status = "ok"

RowsOf(tx, id) == {i \in DOMAIN tx : tx[i].recurring_id = id}

\* C8: once a definition is deactivated, no step inserts a transaction with
\* its id as recurring_id or changes its last_processed or amount, and the
\* transactions already linked to it stay unchanged.
C8_Inert ==
    [][\A id \in DOMAIN recurring :
         ~recurring[id].is_active =>
            /\ recurring'[id] = recurring[id]
            /\ RowsOf(transactions', id) = RowsOf(transactions, id)
            /\ \A i \in RowsOf(transactions, id) : transactions'[i] = transactions[i]
      ]_vars

\* A pass has run today that materialized occurrences while a deactivated
\* definition with occurrences of its own lies behind today.
C8_Witness ==
    /\ result.op = "process_due" /\ result.status = "ok" /\ result.value >= 1
    /\ result.at = today
    /\ \E id \in DOMAIN recurring :
          /\ ~recurring[id].is_active
          /\ RowsOf(transactions, id) # {}
          /\ DueDates(recurring[id].last_processed, recurring[id].frequency, today) # << >>

\* C9: no transaction materialized by process_due for a definition with an
\* end_date has a date after that end_date.
C9_EndDate ==
    [][ProcessDue =>
        \A i \in NewRows :
          LET id == transactions'[i].recurring_id
          IN /\ id \in DOMAIN recurring
             /\ recurring[id].end_date # NULL =>
                   transactions'[i].date <= recurring[id].end_date
      ]_vars

\* An occurrence has been materialized on the end_date itself.
C9_Witness ==
    \E i \in DOMAIN transactions :
        LET id == transactions[i].recurring_id
        IN /\ id \in DOMAIN recurring
           /\ recurring[id].end_date # NULL
           /\ transactions[i].date = recurring[id].end_date

\* C10: if processing one definition fails during a pass, the other loaded
\* definitions are still processed and their watermarks stored, and the call
\* returns the count of the occurrences materialized instead of propagating
\* the failure.
C10_Isolation ==
    [][ProcessDue =>
        /\ result'.status = "ok"
        /\ \A id \in DOMAIN recurring :
             LET r == recurring[id]
                 due == DueDates(r.last_processed, r.frequency, today)
             IN (/\ r.is_active
                 /\ r.end_date = NULL \/ r.end_date >= today
                 /\ ~DueDatesRaise(r.last_processed, r.frequency, today)
                 /\ due # << >>) =>
                   recurring'[id].last_processed = due[Len(due)]
      ]_vars

\* C18: process_due returns the number of (definition, due date) occurrences
\* it materialized in that call, summed over all definitions; an occurrence
\* materialized as a transfer pair counts once although it inserts two rows.
C18_ReturnCount ==
    [][(ProcessDue /\ result'.status = "ok") =>
         /\ \A i \in NewRows : transactions'[i].recurring_id \in DOMAIN recurring
         /\ result'.value =
               Cardinality({<<transactions'[i].recurring_id, transactions'[i].date>> :
                              i \in NewRows})
         /\ result'.value = Cardinality({i \in NewRows : ~IsDestinationLeg(i)})
      ]_vars

\* One pass has materialized one transfer pair for each of two definitions and
\* returned 2 for the four rows.
C18_Witness ==
    /\ result = Ok("process_due", 2)
    /\ DOMAIN transactions = 1..4
    /\ \A i \in DOMAIN transactions : transactions[i].type = "transfer"
    /\ transactions[1].amount = -100 /\ transactions[2].amount = 100
    /\ transactions[3].amount = -100 /\ transactions[4].amount = 100

\* C20: for a definition with end_date e, process_due materializes every
\* period date d = advance^k(last_processed) with d <= today and d <= e, also
\* when the pass first runs on a day after e: a pass that returns has
\* materialized, for every active definition with an end_date, exactly the
\* dates up to the earlier of today and end_date.
C20_EndDateCatchUp ==
    [][(ProcessDue /\ result'.status = "ok") =>
         \A id \in DOMAIN recurring :
            (/\ recurring[id].is_active /\ recurring[id].frequency \in Frequencies
             /\ recurring[id].end_date # NULL) =>
               LET e == recurring[id].end_date
                   due == DueDates(recurring[id].last_processed, recurring[id].frequency,
                                   IF today <= e THEN today ELSE e)
                   occ == Occurrences(id)
               IN /\ Len(occ) = Len(due)
                  /\ \A k \in 1..Len(occ) : transactions'[occ[k]].date = due[k]
      ]_vars

\* C17: deactivate(id) sets the definition inactive and never raises, whether
\* the definition is active, already inactive or absent; calling it twice
\* leaves the same state as calling it once; it changes no transaction, no
\* balance and no other field of the definition.
C17_Deactivate ==
    [][result'.op = "deactivate" =>
         \A id \in 1..MaxDefs :
            Deactivate(id) =>
              /\ result'.status = "ok"
              /\ UNCHANGED <<transactions, balance, nextId>>
              /\ DOMAIN recurring' = DOMAIN recurring
              /\ \A k \in DOMAIN recurring :
                    recurring'[k] = IF k = id
                                    THEN [recurring[k] EXCEPT !.is_active = FALSE]
                                    ELSE recurring[k]
              \* a call on a definition that is already inactive (a second
              \* call) or absent changes nothing
              /\ (id \in DOMAIN recurring => ~recurring[id].is_active) =>
                    recurring' = recurring
      ]_vars

\* deactivate has been called on a definition that has materialized
\* occurrences, and the definition is inactive.
C17_Witness ==
    /\ result.op = "deactivate" /\ result.status = "ok"
    /\ \E id \in DOMAIN recurring :
          /\ ~recurring[id].is_active
          /\ recurring[id].last_processed > recurring[id].start_date
          /\ RowsOf(transactions, id) # {}
    /\ \E id \in DOMAIN recurring : recurring[id].is_active

-----------------------------------------------------------------------------
(* Transfers under update and delete: every row is a leg of a transfer      *)
(* created by create_transfer.                                              *)

NextTransfers ==
    \/ CreateTransferAny
    \/ UpdateAny
    \/ DeleteAny

SpecTransfers == Init /\ [][NextTransfers]_vars

\* C11: after any sequence of create_transfer, update and delete calls, every
\* row of type transfer created by create_transfer still has its partner row:
\* another transfer row with the same date and the opposite amount.
C11_TransferPaired ==
    \A i \in DOMAIN transactions :
        transactions[i].type = "transfer" =>
            \E j \in DOMAIN transactions \ {i} :
                /\ transactions[j].type = "transfer"
                /\ transactions[j].date = transactions[i].date
                /\ transactions[j].amount = -transactions[i].amount

\* Row j is the other leg of transfer row i.
IsOtherLeg(i, j) ==
    /\ j # i
    /\ transactions[i].type = "transfer"
    /\ transactions[j].type = "transfer"
    /\ transactions[j].date = transactions[i].date
    /\ transactions[j].amount = -transactions[i].amount

\* C23 as stated: update with type transfer and a transfer_account_id keeps
\* the direction of the edited leg and leaves the other leg's row and the
\* balance of the other leg's account unchanged.
C23_OtherLegBalanceUntouched ==
    [][\A i \in TxIds, a \in Accounts, m \in SignedAmounts, d \in UpdateDates, x \in Accounts :
         (result' = Ok("update", 1) /\ i \in DOMAIN transactions
            /\ Update(i, a, m, d, "transfer", NoPayee, x)) =>
           /\ transactions[i].amount < 0 => transactions'[i].amount = -Abs(m)
           /\ transactions[i].amount > 0 => transactions'[i].amount = Abs(m)
           /\ \A j \in DOMAIN transactions \ {i} :
                 /\ transactions'[j] = transactions[j]
                 /\ IsOtherLeg(i, j) =>
                       balance'[transactions[j].account_id] = balance[transactions[j].account_id]
      ]_vars

\* C23, amended: update with type transfer and a transfer_account_id keeps
\* the direction of the edited leg (a negative stored amount becomes
\* -|amount|, a positive one +|amount|) and changes no other row; the balance
\* of the other leg's account is unchanged when the edited leg neither was on
\* that account nor is moved to it by the account_id of the update.
C23_TransferEdit ==
    [][\A i \in TxIds, a \in Accounts, m \in SignedAmounts, d \in UpdateDates, x \in Accounts :
         (result' = Ok("update", 1) /\ i \in DOMAIN transactions
            /\ Update(i, a, m, d, "transfer", NoPayee, x)) =>
           /\ transactions[i].amount < 0 => transactions'[i].amount = -Abs(m)
           /\ transactions[i].amount > 0 => transactions'[i].amount = Abs(m)
           /\ \A j \in DOMAIN transactions \ {i} :
                 /\ transactions'[j] = transactions[j]
                 /\ (IsOtherLeg(i, j) /\ transactions[j].account_id \notin {transactions[i].account_id, a}) =>
                       balance'[transactions[j].account_id] = balance[transactions[j].account_id]
      ]_vars

\* The destination leg (row 2, +80 on account 2) of a transfer was updated as
\* a transfer: it is still +80 on account 2, now dated 2024-02-20, and the
\* source leg and both balances are as they were.
C23_Witness ==
    /\ result = Ok("update", 1)
    /\ DOMAIN transactions = {1, 2}
    /\ transactions[1].amount = -80 /\ transactions[1].account_id = 1
    /\ transactions[1].date = 20240115 /\ transactions[1].type = "transfer"
    /\ transactions[2].amount = 80 /\ transactions[2].account_id = 2
    /\ transactions[2].date = 20240220 /\ transactions[2].type = "transfer"
    /\ balance = [a \in Accounts |-> IF a = 1 THEN -80 ELSE 80]

-----------------------------------------------------------------------------
(* routes/transactions.py: transactions added through POST /api/transactions, *)
(* then updated, deleted and joined by the occurrences of process_due.       *)

\* Mutant of post_amount: the route hands the amount on as it came.
post_amount_as_given(amount, trans_type) == amount

\* Lines 45-49: the sign the route gives a regular transaction.
post_amount(amount, trans_type) ==
    IF trans_type = "expense" THEN -Abs(amount) ELSE Abs(amount)

\* The JSON bodies posted: all required fields present.
PostInputs ==
    [account_id : {1}, amount : {-50}, date : CreateDates,
     type : Types, transfer_account_id : {NULL, 2},
     is_recurring : BOOLEAN, frequency : {"quarterly"}, increment_amount : {-60}]

\* Lines 26-33: recurring.create() when is_recurring is set; it commits on its
\* own connection before the transaction is written.
post_recurring(rec, data) ==
    IF data.is_recurring
    THEN Append(rec, Definition(data.account_id, data.amount, data.type, NoPayee,
                                data.frequency, data.date, NULL,
                                data.increment_amount))
    ELSE rec

\* Lines 35-55: the ledger call of the route.
post_stmts(db, data, recurring_id) ==
    IF data.type = "transfer" /\ data.transfer_account_id # NULL
    THEN create_transfer_stmts(db, data.account_id, data.transfer_account_id,
                               Abs(data.amount), data.date, recurring_id)
    ELSE create_stmts(data.account_id, post_amount(data.amount, data.type),
                      data.date, data.type, NoPayee, recurring_id)

\* POST /api/transactions (lines 12-60)
PostTransaction(data) ==
    /\ session = NoSession
    /\ data.is_recurring => Len(recurring) < MaxDefs
    /\ LET stmts == post_stmts(Db, data,
                       IF data.is_recurring THEN Len(recurring) + 1 ELSE NULL)
       IN /\ nextId + Len(stmts) \div 2 - 1 <= MaxTxId
          /\ Store(commit(Db, ExecuteAll(Db, stmts)))
    /\ recurring' = post_recurring(recurring, data)
    /\ result' = Ok("post", 200)
    /\ UNCHANGED <<today, session>>

PostTransactionAny ==
    \E data \in PostInputs :
        \* a transfer_account_id is only read when the type is transfer
        /\ data.transfer_account_id # NULL => data.type = "transfer"
        /\ data.is_recurring => data.type # "transfer"
        /\ PostTransaction(data)

\* PUT /api/transactions/<id> on a regular transaction of account 1
UpdatePosted ==
    \E i \in TxIds, m \in SignedAmounts, d \in UpdateDates, t \in {"expense", "income"} :
        Update(i, 1, m, d, t, NoPayee, NULL)

NextApp ==
    \/ PostTransactionAny
    \/ UpdatePosted
    \/ DeleteAny
    \/ ProcessDue
    \/ Tick

SpecApp == Init /\ [][NextApp]_vars

\* C15: after any sequence of transactions added through the POST route,
\* updates, deletes and process_due passes, every row of type expense has
\* amount <= 0 and every row of type income has amount >= 0.
C15_SignByType ==
    \A i \in DOMAIN transactions :
        /\ transactions[i].type = "expense" => transactions[i].amount <= 0
        /\ transactions[i].type = "income" => transactions[i].amount >= 0

\* An income occurrence materialized from a definition posted with a negative
\* amount, next to a row updated to an expense.
C15_Witness ==
    /\ \E i \in DOMAIN transactions :
          LET id == transactions[i].recurring_id
          IN /\ id \in DOMAIN recurring
             /\ recurring[id].amount < 0
             /\ transactions[i].type = "income"
             /\ transactions[i].date > 20240115
             /\ transactions[i].amount > 0
    /\ \E i \in DOMAIN transactions :
          /\ transactions[i].type = "expense"
          /\ transactions[i].date = 20240220
          /\ transactions[i].amount = -80

-----------------------------------------------------------------------------
(* Ledger operations on an account id that table accounts does not hold.     *)
(* Database.get_connection() does not turn foreign-key enforcement on, so    *)
(* the INSERT accepts the id, and the UPDATE of update_balance matches no    *)
(* row.                                                                      *)

MissingAccount == 3
AccountIds == Accounts \cup {MissingAccount}

CreateOnAccountId ==
    \E a \in AccountIds, m \in Amounts :
        Create(a, m, 20240115, "expense", NoPayee, NULL)

CreateTransferOnAccountId ==
    \E a \in AccountIds, b \in AccountIds :
        CreateTransfer(a, b, 80, 20240115, NULL)

UpdateOnAccountId ==
    \E i \in TxIds, a \in AccountIds :
        Update(i, a, 80, 20240220, "income", NoPayee, NULL)

NextAccountIds ==
    \/ CreateOnAccountId
    \/ CreateTransferOnAccountId
    \/ UpdateOnAccountId
    \/ DeleteAny

SpecAccountIds == Init /\ [][NextAccountIds]_vars

\* C16: a balance adjustment made by a ledger operation on an account id that
\* does not exist fails with a not-found error, and the ledger operation that
\* requested it (create, create_transfer, update to that account) persists no
\* row and no balance change.
C16_MissingAccountFails ==
    [][/\ result'.op = "create" =>
            \A m \in Amounts :
               Create(MissingAccount, m, 20240115, "expense", NoPayee, NULL) =>
                  /\ result'.status = "raised"
                  /\ UNCHANGED <<transactions, balance, nextId>>
       /\ result'.op = "create_transfer" =>
            \A a \in AccountIds, b \in AccountIds :
               (/\ MissingAccount \in {a, b}
                /\ CreateTransfer(a, b, 80, 20240115, NULL)) =>
                  /\ result'.status = "raised"
                  /\ UNCHANGED <<transactions, balance, nextId>>
       /\ result'.op = "update" =>
            \A i \in DOMAIN transactions :
               Update(i, MissingAccount, 80, 20240220, "income", NoPayee, NULL) =>
                  /\ result'.status = "raised"
                  /\ UNCHANGED <<transactions, balance, nextId>>
      ]_vars

-----------------------------------------------------------------------------
(* transaction.py: get_filtered, read on its own connection while ledger     *)
(* operations write statement by statement.                                  *)

NoFilter == ""                  \* a filter argument left at None

\* The category column of a row; NULL for a row written without one.
category_of(row) == IF "category" \in DOMAIN row THEN row.category ELSE NoPayee

\* The row of create() with its category column.
RowWithCategory(account_id, amount, date, type, category) ==
    [account_id |-> account_id, amount |-> amount, date |-> date,
     type |-> type, payee |-> NoPayee, recurring_id |-> NULL,
     category |-> category]

\* Lines 19-37: the WHERE clause built from the arguments that are truthy,
\* after JOIN accounts a ON t.account_id = a.id.
where_clause(db, row, q) ==
    /\ row.account_id \in DOMAIN db.bal
    /\ q.account_id # NULL => row.account_id = q.account_id
    /\ q.category # NoFilter => category_of(row) = q.category
    /\ q.type # NoFilter => row.type = q.type
    /\ q.date_from # NULL => row.date >= q.date_from
    /\ q.date_to # NULL => row.date <= q.date_to

\* ORDER BY t.date DESC, t.id DESC
RECURSIVE order_by_date_id_desc(_, _)
order_by_date_id_desc(tx, ids) ==
    IF ids = {} THEN << >>
    ELSE LET first == CHOOSE i \in ids : \A j \in ids \ {i} :
                          \/ tx[i].date > tx[j].date
                          \/ tx[i].date = tx[j].date /\ i > j
         IN <<first>> \o order_by_date_id_desc(tx, ids \ {first})

\* Mutant of get_filtered: the rows come oldest first.
get_filtered_oldest_first(db, q) ==
    LET rows == order_by_date_id_desc(db.tx,
                    {i \in DOMAIN db.tx : where_clause(db, db.tx[i], q)})
        n == IF q.limit < 0 \/ q.limit > Len(rows) THEN Len(rows) ELSE q.limit
    IN [k \in 1..n |-> rows[Len(rows) + 1 - k]]

\* get_filtered(): the ids of the rows returned, in order.  LIMIT ? with a
\* negative value is no limit.
get_filtered(db, q) ==
    LET rows == order_by_date_id_desc(db.tx,
                    {i \in DOMAIN db.tx : where_clause(db, db.tx[i], q)})
        n == IF q.limit < 0 \/ q.limit > Len(rows) THEN Len(rows) ELSE q.limit
    IN SubSeq(rows, 1, n)

Query(account_id, category, type, date_from, date_to, limit) ==
    [account_id |-> account_id, category |-> category, type |-> type,
     date_from |-> date_from, date_to |-> date_to, limit |-> limit]

\* The calls made: no filter with the default limit, each filter alone, all
\* of them together, and small limits.
QueryInputs ==
    { Query(NULL, NoFilter, NoFilter, NULL, NULL, 100),
      Query(1, NoFilter, NoFilter, NULL, NULL, 100),
      Query(NULL, "Food", NoFilter, NULL, NULL, 100),
      Query(NULL, NoFilter, "expense", NULL, NULL, 100),
      Query(NULL, NoFilter, NoFilter, 20240220, NULL, 100),
      Query(NULL, NoFilter, NoFilter, NULL, 20240115, 100),
      Query(1, "Food", "expense", 20240115, 20240220, 100),
      Query(NULL, NoFilter, NoFilter, NULL, NULL, 1),
      Query(2, NoFilter, NoFilter, NULL, NULL, 1),
      Query(NULL, NoFilter, NoFilter, NULL, NULL, 0) }

\* The rows written while the queries run.
QueryRows ==
    { RowWithCategory(1, -50, 20240115, "expense", "Food"),
      RowWithCategory(1, 80, 20240220, "income", NoPayee),
      RowWithCategory(2, -50, 20240220, "expense", "Food"),
      RowWithCategory(2, 80, 20240115, "income", "Pay"),
      RowWithCategory(MissingAccount, -50, 20240220, "expense", "Food") }

\* create() of one of the rows, up to its first statement
BeginCreateRow ==
    \E row \in QueryRows :
        /\ nextId <= MaxTxId
        /\ Open("create", << StmtInsert(row),
                             StmtBalance(row.account_id, row.amount) >>, nextId)

\* get_filtered() on a connection of its own: it reads the committed tables
GetFiltered(q) ==
    /\ result' = [op |-> "get_filtered", status |-> "ok", at |-> today,
                  query |-> q, rows |-> get_filtered(Db, q),
                  value |-> Len(get_filtered(Db, q))]
    /\ UNCHANGED <<transactions, balance, nextId, recurring, today, session>>

GetFilteredAny == \E q \in QueryInputs : GetFiltered(q)

NextQuery ==
    \/ BeginCreateRow
    \/ ExecuteNext
    \/ Commit
    \/ Fail
    \/ GetFilteredAny

SpecQuery == Init /\ [][NextQuery]_vars

\* Row i comes before row j in the order date descending, id descending.
Newer(i, j) ==
    \/ transactions[i].date > transactions[j].date
    \/ transactions[i].date = transactions[j].date /\ i > j

-----------------------------------------------------------------------------
(* recurring.py: process_due step by step.  Every ledger call of the pass    *)
(* and every watermark update commits on a connection of its own, so a pass  *)
(* can end (crash) between any two of them, and two passes (the server runs  *)
(* threaded) can interleave.  session holds the passes in progress.          *)

RunIds == {1, 2}

Idle == [phase |-> "idle"]

\* The local variables of the invocations of process_due.
Runs == IF session = NoSession THEN [p \in RunIds |-> Idle] ELSE session.runs

InProgress(run) == run.phase \in {"next", "loop"}

SetRun(p, run) == session' = [op |-> "process_due", runs |-> [Runs EXCEPT ![p] = run]]

\* The definitions created before the passes run.
PassInputs ==
    { Definition(1, 100, "expense", NoPayee, "monthly", 20240115, NULL, 10),
      Definition(1, 100, "transfer", "A2", "quarterly", 20240115, NULL, 0) }

RecurringCreateForPass == \E definition \in PassInputs : RecurringCreate(definition)

\* Lines 57-65: today, processed = 0 and the rows loaded.
PassLoad(p) ==
    /\ ~InProgress(Runs[p])
    /\ recurring # << >>
    /\ SetRun(p, [phase |-> "next", today |-> today, loaded |-> recurring,
                  ids |-> due_query(recurring, today), processed |-> 0,
                  last_processed |-> NULL, current_amount |-> 0,
                  next_date |-> NULL, rows |-> {}])
    /\ UNCHANGED <<transactions, balance, nextId, recurring, today, result>>

\* Lines 68-78: the next loaded row; the first date computation may raise.
PassBegin(p) ==
    LET run == Runs[p]
    IN /\ run.phase = "next"
       /\ run.ids # << >>
       /\ LET r == run.loaded[Head(run.ids)]
              next_date == calculate_next_date(r.last_processed, r.frequency)
          IN IF next_date = ValueError
             THEN /\ SetRun(p, [run EXCEPT !.phase = "raised"])
                  /\ result' = Raised("process_due")
             ELSE /\ SetRun(p, [run EXCEPT !.phase = "loop",
                                           !.last_processed = r.last_processed,
                                           !.current_amount = r.amount,
                                           !.next_date = next_date,
                                           !.rows = {}])
                  /\ UNCHANGED result
       /\ UNCHANGED <<transactions, balance, nextId, recurring, today>>

\* Lines 80-124: one iteration of `while next_date <= today`; the ledger call
\* commits, then the next date is computed, which may raise.
PassOccurrence(p) ==
    LET run == Runs[p]
    IN /\ run.phase = "loop"
       /\ run.next_date <= run.today
       /\ nextId <= MaxRecTxId
       /\ LET id == Head(run.ids)
              r == run.loaded[id]
              current_amount == run.current_amount + r.increment_amount
              db == materialize(Db, r, id, current_amount, run.next_date)
              next_date == calculate_next_date(run.next_date, r.frequency)
          IN /\ Store(db)
             /\ SetRun(p, [run EXCEPT
                             !.phase = IF next_date = ValueError THEN "raised" ELSE "loop",
                             !.current_amount = current_amount,
                             !.processed = @ + 1,
                             !.last_processed = run.next_date,
                             !.next_date = next_date,
                             !.rows = @ \cup (DOMAIN db.tx \ DOMAIN transactions)])
             /\ result' = IF next_date = ValueError THEN Raised("process_due") ELSE result
       /\ UNCHANGED <<recurring, today>>

\* Mutant of PassStore: the amount stored is the stored amount plus the
\* increments of this pass, not the amount the pass computed.
PassStore_accumulates(p) ==
    LET run == Runs[p]
    IN /\ run.phase = "loop"
       /\ ~(run.next_date <= run.today)
       /\ LET id == Head(run.ids)
          IN recurring' = store_watermark(recurring, id,
                                          run.loaded[id].last_processed,
                                          run.last_processed,
                                          recurring[id].amount + run.current_amount
                                              - run.loaded[id].amount)
       /\ SetRun(p, [run EXCEPT !.phase = "next", !.ids = Tail(@)])
       /\ UNCHANGED <<transactions, balance, nextId, today, result>>

\* Lines 126-133: the loop is over; the watermark and the amount are stored
\* if the loop advanced last_processed.
PassStore(p) ==
    LET run == Runs[p]
    IN /\ run.phase = "loop"
       /\ ~(run.next_date <= run.today)
       /\ LET id == Head(run.ids)
          IN recurring' = store_watermark(recurring, id,
                                          run.loaded[id].last_processed,
                                          run.last_processed, run.current_amount)
       /\ SetRun(p, [run EXCEPT !.phase = "next", !.ids = Tail(@)])
       /\ UNCHANGED <<transactions, balance, nextId, today, result>>

\* Line 135: return processed
PassReturn(p) ==
    LET run == Runs[p]
    IN /\ run.phase = "next"
       /\ run.ids = << >>
       /\ SetRun(p, [run EXCEPT !.phase = "done"])
       /\ result' = [Ok("process_due", run.processed) EXCEPT !.at = run.today]
       /\ UNCHANGED <<transactions, balance, nextId, recurring, today>>

\* Mutant of PassCrash: the crash takes the occurrences the pass inserted for
\* the current definition with it.
PassCrash_loses_rows(p) ==
    LET run == Runs[p]
    IN /\ InProgress(run)
       /\ SetRun(p, [run EXCEPT !.phase = "crashed"])
       /\ transactions' = [i \in DOMAIN transactions \ run.rows |-> transactions[i]]
       /\ result' = [Raised("process_due") EXCEPT !.status = "crashed"]
       /\ UNCHANGED <<balance, nextId, recurring, today>>

\* The process ends in the middle of a pass: what was committed stays.
PassCrash(p) ==
    LET run == Runs[p]
    IN /\ InProgress(run)
       /\ SetRun(p, [run EXCEPT !.phase = "crashed"])
       /\ result' = [Raised("process_due") EXCEPT !.status = "crashed"]
       /\ UNCHANGED <<transactions, balance, nextId, recurring, today>>

\* One invocation at a time, which may crash.
NextPassCrash ==
    \/ RecurringCreateForPass
    \/ Tick
    \/ PassLoad(1)
    \/ PassBegin(1)
    \/ PassOccurrence(1)
    \/ PassStore(1)
    \/ PassReturn(1)
    \/ PassCrash(1)

SpecPassCrash == Init /\ [][NextPassCrash]_vars

\* The dates of the rows in S, one per occurrence.
OccurrenceDates(tx, S) == {tx[i].date : i \in S}

RECURSIVE SeqToSet(_)
SeqToSet(sq) == IF sq = << >> THEN {} ELSE {Head(sq)} \cup SeqToSet(Tail(sq))

\* C21: if a pass crashes after inserting some occurrences of a definition but
\* before that definition's watermark update, the stored last_processed and
\* amount are still the old values and every inserted occurrence stays with
\* its balance change; a pass that then completes the definition has
\* materialized every due date of the whole window counted from the stored
\* watermark, and stores the largest of them.
C21_CrashRecovery ==
    /\ [][PassCrash(1) =>
            /\ UNCHANGED <<transactions, balance, nextId, recurring>>
            /\ Runs[1].phase = "loop" =>
                  LET id == Head(Runs[1].ids)
                  IN /\ recurring'[id].last_processed = Runs[1].loaded[id].last_processed
                     /\ recurring'[id].amount = Runs[1].loaded[id].amount
         ]_vars
    /\ [][PassStore(1) =>
            LET run == Runs[1]
                id == Head(run.ids)
                due == DueDates(recurring[id].last_processed, recurring[id].frequency,
                                run.today)
            IN /\ OccurrenceDates(transactions, run.rows) = SeqToSet(due)
               /\ \A i \in run.rows : transactions[i].recurring_id = id
               /\ due # << >> => recurring'[id].last_processed = due[Len(due)]
         ]_vars
    /\ [](\A a \in Accounts : balance[a] = AccountSum(transactions, a))

\* A pass crashed after inserting the occurrence of 2024-02-15; the next pass
\* has inserted it again and stored the watermark: two rows, both counted in
\* the balance.
C21_Witness ==
    /\ result.op = "process_due" /\ result.status = "ok" /\ result.value = 1
    /\ DOMAIN transactions = {1, 2}
    /\ transactions[1] = transactions[2]
    /\ transactions[1].date = 20240215 /\ transactions[1].recurring_id = 1
    /\ recurring[1].last_processed = 20240215 /\ recurring[1].amount = 110
    /\ balance[1] = -220

\* Two invocations at once (two requests on the threaded server).
NextPassRace ==
    \/ RecurringCreateForPass
    \/ Tick
    \/ \E p \in RunIds : PassLoad(p)
    \/ \E p \in RunIds : PassBegin(p)
    \/ \E p \in RunIds : PassOccurrence(p)
    \/ \E p \in RunIds : PassStore(p)
    \/ \E p \in RunIds : PassReturn(p)

SpecPassRace == Init /\ [][NextPassRace]_vars

\* The source-side rows of definition id dated d.
OccurrenceRows(tx, id, d) ==
    {i \in DOMAIN tx : tx[i].recurring_id = id /\ tx[i].date = d /\ ~(tx[i].type = "transfer" /\ tx[i].amount > 0)}

\* Invocation q loaded definition id with the watermark that invocation p
\* loaded, on the same day, and is done with it.
LoadedTogether(p, q, id) ==
    /\ q # p
    /\ Runs[q].phase \in {"next", "loop", "done"}
    /\ Runs[q].today = Runs[p].today
    /\ id <= Len(Runs[q].loaded)
    /\ Runs[q].loaded[id].last_processed = Runs[p].loaded[id].last_processed
    /\ id \in SeqToSet(due_query(Runs[q].loaded, Runs[q].today))
    /\ id \notin SeqToSet(Runs[q].ids)

\* C22: two invocations of process_due that both load the same due definition
\* before either stores its watermark each insert its due occurrences: every
\* due date then has two rows of the definition, both counted in the balance,
\* while the stored watermark and amount are those of a single pass.
C22_Overlap ==
    /\ [][\A p \in RunIds : PassStore(p) =>
            LET run == Runs[p]
                id == Head(run.ids)
                r == run.loaded[id]
                due == DueDates(r.last_processed, r.frequency, run.today)
            IN \A q \in RunIds : LoadedTogether(p, q, id) =>
                  /\ \A d \in SeqToSet(due) : Cardinality(OccurrenceRows(transactions', id, d)) = 2
                  /\ due # << >> => recurring'[id].last_processed = due[Len(due)]
                  /\ recurring'[id].amount = r.amount + Len(due) * r.increment_amount
         ]_vars
    /\ [](\A a \in Accounts : balance[a] = AccountSum(transactions, a))

\* Both invocations loaded definition 1 on 2024-03-01 and have returned 1: the
\* occurrence of 2024-02-15 has two rows and the balance counts both, while
\* the stored amount was incremented once.
C22_Witness ==
    /\ \A p \in RunIds : Runs[p].phase = "done" /\ Runs[p].processed = 1 /\ Runs[p].today = 20240301
    /\ OccurrenceRows(transactions, 1, 20240215) = {1, 2}
    /\ transactions[1].amount = -110 /\ transactions[2].amount = -110
    /\ balance[1] = -220
    /\ recurring[1].last_processed = 20240215 /\ recurring[1].amount = 110

-----------------------------------------------------------------------------
(* recurring.py: the occurrences of definitions of type transfer, one loop   *)
(* iteration at a time.                                                      *)

\* Transfer definitions: the payee names another account, no account, the
\* definition's own account, or is empty or NULL.
TransferInputs ==
    { Definition(1, 100, "transfer", "A2", "monthly", 20240115, NULL, 10),
      Definition(1, 100, "transfer", "Nobody", "monthly", 20240115, NULL, 10),
      Definition(2, 100, "transfer", "A2", "quarterly", 20240115, NULL, 0),
      Definition(1, 100, "transfer", "", "quarterly", 20240115, NULL, 0),
      Definition(2, -100, "transfer", NoPayee, "quarterly", 20240115, NULL, 0) }

RecurringCreateTransferDef == \E definition \in TransferInputs : RecurringCreate(definition)

NextTransferDefs ==
    \/ RecurringCreateTransferDef
    \/ Tick
    \/ PassLoad(1)
    \/ PassBegin(1)
    \/ PassOccurrence(1)
    \/ PassStore(1)
    \/ PassReturn(1)

SpecTransferDefs == Init /\ [][NextTransferDefs]_vars

\* The occurrence that PassOccurrence(1) materializes: for a transfer
\* definition with a payee it is the pair when the payee names an account and
\* the single outflow otherwise.
TransferOccurrence(r, id, amount, date) ==
    LET n == nextId
        leg(i, account_id, m) == /\ i \in DOMAIN transactions'
                                 /\ transactions'[i].account_id = account_id
                                 /\ transactions'[i].amount = m
                                 /\ transactions'[i].date = date
                                 /\ transactions'[i].recurring_id = id
    IN /\ \A i \in DOMAIN transactions : i \in DOMAIN transactions' /\ transactions'[i] = transactions[i]
       /\ IF \E b \in Accounts : AccountName(b) = r.payee
          THEN /\ NewRows = {n, n + 1}
               /\ leg(n, r.account_id, -amount)
               /\ \E b \in Accounts : AccountName(b) = r.payee /\ leg(n + 1, b, amount)
          ELSE /\ NewRows = {n}
               /\ leg(n, r.account_id, -amount)

\* C24 as stated: each due occurrence of a transfer definition that has a
\* payee is materialized as the transfer pair when the payee names an existing
\* account and as a single row of -|amount| otherwise, and the balance of the
\* definition's account decreases by |amount|.
C24_SourceAlwaysDecreases ==
    [][PassOccurrence(1) =>
        LET run == Runs[1]
            id == Head(run.ids)
            r == run.loaded[id]
            amount == Abs(run.current_amount + r.increment_amount)
        IN (r.type = "transfer" /\ Truthy(r.payee)) =>
              /\ TransferOccurrence(r, id, amount, run.next_date)
              /\ balance'[r.account_id] = balance[r.account_id] - amount
      ]_vars

\* C24, amended: each due occurrence of a transfer definition that has a
\* payee is materialized as exactly one of the transfer pair (-|amount| on the
\* definition's account, +|amount| on the account the payee names, both dated
\* the due date and carrying the definition's id) when the payee names an
\* existing account, and the single row of -|amount| on the definition's
\* account otherwise; the balance of the definition's account decreases by
\* |amount| unless the payee names that account itself, and is then unchanged.
C24_TransferOccurrence ==
    [][PassOccurrence(1) =>
        LET run == Runs[1]
            id == Head(run.ids)
            r == run.loaded[id]
            amount == Abs(run.current_amount + r.increment_amount)
        IN (r.type = "transfer" /\ Truthy(r.payee)) =>
              /\ TransferOccurrence(r, id, amount, run.next_date)
              /\ balance'[r.account_id] =
                    IF AccountName(r.account_id) = r.payee
                    THEN balance[r.account_id]
                    ELSE balance[r.account_id] - amount
      ]_vars

\* Definition 1 pays account A2 and definition 2 pays "Nobody": the pass of
\* 2024-03-01 inserted the pair 1, 2 for the first and the single outflow 3
\* for the second, each of 110.
C24_Witness ==
    /\ Len(recurring) = 2
    /\ recurring[1].payee = "A2" /\ recurring[2].payee = "Nobody"
    /\ DOMAIN transactions = {1, 2, 3}
    /\ transactions[1].amount = -110 /\ transactions[1].account_id = 1
    /\ transactions[2].amount = 110 /\ transactions[2].account_id = 2
    /\ transactions[3].amount = -110 /\ transactions[3].account_id = 1
    /\ transactions[3].payee = "Nobody" /\ transactions[3].recurring_id = 2
    /\ \A i \in 1..3 : transactions[i].date = 20240215
    /\ balance = [a \in Accounts |-> IF a = 1 THEN -220 ELSE 110]

\* C30: every single-leg row that process_due materializes for a definition
\* of type transfer is an outflow of -|amount| on the definition's account,
\* also when the definition's payee is empty or NULL.
C30_SingleLegOutflow ==
    [][PassOccurrence(1) =>
        LET run == Runs[1]
            id == Head(run.ids)
            r == run.loaded[id]
            amount == Abs(run.current_amount + r.increment_amount)
        IN (r.type = "transfer" /\ Cardinality(NewRows) = 1) =>
              \A i \in NewRows :
                  /\ transactions'[i].account_id = r.account_id
                  /\ transactions'[i].amount = -amount
                  /\ balance'[r.account_id] = balance[r.account_id] - amount
      ]_vars

-----------------------------------------------------------------------------
(* recurring.py: _calculate_next_date as a function of its two arguments.    *)

AdvanceYears == {2023, 2024}

\* Every calendar date of the years above.
AdvanceDates ==
    {MkDate(y, m, d) : y \in AdvanceYears, m \in 1..12, d \in 1..31} \cap
    {x \in 20230101..20241231 : Month(x) \in 1..12 /\ Day(x) \in 1..DaysInMonth(Year(x), Month(x))}

\* The frequency column is free text: create() stores what the route passes.
FrequencyInputs == Frequencies \cup {"fortnightly"}

InitAdvance ==
    /\ transactions = << >>
    /\ balance = [a \in Accounts |-> 0]
    /\ nextId = 1
    /\ recurring = << >>
    /\ today \in AdvanceDates
    /\ result = Ok("init", 0)
    /\ session = NoSession

\* One call _calculate_next_date(today, frequency); the date returned is the
\* argument of the next call while it is in the years above.
Advance(frequency) ==
    LET next_date == calculate_next_date(today, frequency)
    IN /\ result' = IF next_date = ValueError
                    THEN Raised("advance")
                    ELSE Ok("advance", next_date)
       /\ session' = [op |-> "advance", frequency |-> frequency]
       /\ today' = IF next_date # ValueError /\ Year(next_date) \in AdvanceYears
                   THEN next_date ELSE today
       /\ UNCHANGED <<transactions, balance, nextId, recurring>>

NextAdvance == \E frequency \in FrequencyInputs : Advance(frequency)

SpecAdvance == InitAdvance /\ [][NextAdvance]_vars

\* date.toordinal(): the number of the day, counted from 0001-01-01.
RECURSIVE DaysBeforeMonth(_, _)
DaysBeforeMonth(y, m) == IF m = 1 THEN 0 ELSE DaysBeforeMonth(y, m - 1) + DaysInMonth(y, m - 1)

Ordinal(date) ==
    LET y == Year(date) - 1
    IN 365 * y + (y \div 4) - (y \div 100) + (y \div 400) + DaysBeforeMonth(Year(date), Month(date)) + Day(date)

IsDate(date) ==
    /\ date > 0
    /\ Month(date) \in 1..12
    /\ Day(date) \in 1..DaysInMonth(Year(date), Month(date))

MonthIndex(date) == Year(date) * 12 + Month(date) - 1

\* The table of the six frequencies: n is d advanced by f.
Advanced(d, f, n) ==
    /\ IsDate(n)
    /\ n > d
    /\ f = "daily" => Ordinal(n) = Ordinal(d) + 1
    /\ f = "weekly" => Ordinal(n) = Ordinal(d) + 7
    /\ f = "biweekly" => Ordinal(n) = Ordinal(d) + 14
    /\ f = "monthly" => Day(n) = Day(d) /\ MonthIndex(n) = MonthIndex(d) + 1
    /\ f = "quarterly" => Day(n) = Day(d) /\ MonthIndex(n) = MonthIndex(d) + 3
    /\ f = "yearly" => Day(n) = Day(d) /\ MonthIndex(n) = MonthIndex(d) + 12

\* C25: for each of the six frequencies _calculate_next_date(d, f) returns
\* d + 1, + 7, + 14 days (daily, weekly, biweekly), the same day of the next
\* month (monthly), of the month three months later (quarterly), of the same
\* month of the next year (yearly), and the date returned is later than d.
C25_Advance ==
    [][\A f \in Frequencies :
         Advance(f) => /\ result'.status = "ok"
                       /\ Advanced(today, f, result'.value)
      ]_vars

\* C26: _calculate_next_date yields a valid later date for every valid date,
\* also from day 29-31 (monthly, quarterly) and Feb 29 (yearly): a pass never
\* fails, and every definition it loaded is caught up afterwards (the date
\* after its stored watermark is a valid date later than the clock).
C26_MonthEnd ==
    [][ProcessDue =>
        /\ result'.status = "ok"
        /\ \A id \in SeqToSet(due_query(recurring, today)) :
              recurring[id].frequency \in Frequencies =>
                 LET next_date == calculate_next_date(recurring'[id].last_processed,
                                                      recurring[id].frequency)
                 IN IsDate(next_date) /\ next_date > today
      ]_vars

-----------------------------------------------------------------------------
(* recurring.py: the catch-up loop for each frequency string that can be     *)
(* stored, one loop iteration at a time.                                     *)

FrequencyDefs ==
    { Definition(1, 100, "expense", NoPayee, f, 20240115, NULL, 0) : f \in FrequencyInputs }

RecurringCreateFrequency == \E definition \in FrequencyDefs : RecurringCreate(definition)

NextFrequencies ==
    \/ RecurringCreateFrequency
    \/ Tick
    \/ PassLoad(1)
    \/ PassBegin(1)
    \/ PassOccurrence(1)
    \/ PassStore(1)
    \/ PassReturn(1)

SpecFrequencies == Init /\ [][NextFrequencies]_vars

\* C27: process_due terminates for every stored set of definitions, also with
\* a frequency that is not one of the six known values: every iteration of the
\* catch-up loop moves next_date forward (or ends the pass), so a definition
\* gets at most one occurrence per day between its watermark and the clock.
C27_Terminates ==
    [][PassOccurrence(1) =>
        LET run == Runs[1]
            after == session'.runs[1]
            id == Head(run.ids)
        IN /\ after.phase = "raised" \/ after.next_date > run.next_date
           /\ Cardinality(after.rows) <= Ordinal(run.today) - Ordinal(run.loaded[id].last_processed)
      ]_vars

-----------------------------------------------------------------------------
(* The stored watermark and amount over a sequence of passes (SpecRecurring) *)

\* advance^k(d)
RECURSIVE AdvanceK(_, _, _)
AdvanceK(d, f, k) ==
    IF k = 0 \/ d = ValueError THEN d ELSE AdvanceK(calculate_next_date(d, f), f, k - 1)

\* The definition as create() stored it.
AsCreated(r) == [r EXCEPT !.last_processed = r.start_date, !.amount = 0, !.is_active = TRUE]

\* Definition r has been advanced k periods since it was created.
AdvancedBy(r, k) ==
    /\ r.last_processed = AdvanceK(r.start_date, r.frequency, k)
    /\ \E t \in RecurringInputs :
          /\ AsCreated(t) = AsCreated(r)
          /\ r.amount = t.amount + k * r.increment_amount
    /\ k >= 1 => r.last_processed <= today

\* C28: over any sequence of process_due passes run to completion one after
\* the other with a non-decreasing clock, each definition's last_processed
\* never decreases, is not later than the clock once a pass has advanced it,
\* equals advance^k(start_date) for some k >= 0, and its stored amount is the
\* creation amount + k * increment_amount for the same k.
C28_Watermark ==
    /\ [](\A id \in DOMAIN recurring : \E k \in 0..MaxRecTxId : AdvancedBy(recurring[id], k))
    /\ [][\A id \in DOMAIN recurring :
            /\ recurring'[id].last_processed >= recurring[id].last_processed
            /\ (recurring'[id].amount # recurring[id].amount) =>
                  (recurring'[id].last_processed # recurring[id].last_processed)
         ]_vars

\* Definition 1 (100, increment 10, monthly from 2024-01-15) after the pass of
\* 2024-03-01 and the pass of 2024-04-20, which returned 2: three periods,
\* watermark 2024-04-15 and amount 130.
C28_Witness ==
    /\ result = Ok("process_due", 2)
    /\ today = 20240420
    /\ Len(recurring) >= 1
    /\ recurring[1].start_date = 20240115 /\ recurring[1].increment_amount = 10
    /\ AdvancedBy(recurring[1], 3)
    /\ recurring[1].last_processed = 20240415 /\ recurring[1].amount = 130

-----------------------------------------------------------------------------
(* transaction.py: update and delete from two requests at once.  Each call   *)
(* opens a connection of its own and reads the row with a SELECT, outside    *)
(* any transaction; its statements and its commit then run as one write      *)
(* transaction, which SQLite serialises with the other connection's.         *)

Clients == {1, 2}

\* The calls start while no balance is beyond this magnitude.
MaxBalance == 160

BalancesInBound == \A a \in Accounts : Abs(balance[a]) <= MaxBalance

\* What the SELECT of a call returns: the row, if there is one.
Seen(transaction_id) ==
    [tx |-> [i \in DOMAIN transactions \cap {transaction_id} |-> transactions[i]],
     bal |-> [a \in Accounts |-> 0], nid |-> 0]

NoCall == [phase |-> "idle"]

\* The calls in progress.
Calls == IF session = NoSession THEN [c \in Clients |-> NoCall] ELSE session.calls

SetCall(c, call) ==
    LET calls == [Calls EXCEPT ![c] = call]
    IN session' = IF \A k \in Clients : calls[k] = NoCall
                  THEN NoSession
                  ELSE [op |-> "calls", calls |-> calls]

\* update(), lines 95-101: the SELECT of the current row; no row returns False.
ReadForUpdate(c, transaction_id, account_id, amount, trans_type) ==
    /\ Calls[c] = NoCall
    /\ BalancesInBound
    /\ IF transaction_id \notin DOMAIN transactions
       THEN /\ result' = Ok("update", 0)
            /\ UNCHANGED session
       ELSE /\ SetCall(c, [phase |-> "read", op |-> "update", seen |-> Seen(transaction_id),
                           transaction_id |-> transaction_id,
                           account_id |-> account_id, amount |-> amount,
                           trans_type |-> trans_type])
            /\ UNCHANGED result
    /\ UNCHANGED <<transactions, balance, nextId, recurring, today>>

\* update(), lines 103-136: the UPDATE and the balance statements, computed
\* from the row that was read, the commit and `return True`.
WriteUpdate(c) ==
    LET call == Calls[c]
    IN /\ call.phase = "read" /\ call.op = "update"
       /\ Store(commit(Db, ExecuteAll(Db,
                update_stmts(call.seen, call.transaction_id, call.account_id,
                             call.amount, 20240220, call.trans_type, NoPayee, NULL))))
       /\ result' = Ok("update", 1)
       /\ SetCall(c, NoCall)
       /\ UNCHANGED <<recurring, today>>

\* delete(), lines 141-146 and 151: the SELECT of the row; no row returns False.
ReadForDelete(c, transaction_id) ==
    /\ Calls[c] = NoCall
    /\ BalancesInBound
    /\ IF transaction_id \notin DOMAIN transactions
       THEN /\ result' = Ok("delete", 0)
            /\ UNCHANGED session
       ELSE /\ SetCall(c, [phase |-> "read", op |-> "delete", seen |-> Seen(transaction_id),
                           transaction_id |-> transaction_id])
            /\ UNCHANGED result
    /\ UNCHANGED <<transactions, balance, nextId, recurring, today>>

\* delete(), lines 147-150: the DELETE, the reversal of the amount that was
\* read, the commit and `return True`.
WriteDelete(c) ==
    LET call == Calls[c]
    IN /\ call.phase = "read" /\ call.op = "delete"
       /\ Store(commit(Db, ExecuteAll(Db, delete_stmts(call.seen, call.transaction_id))))
       /\ result' = Ok("delete", 1)
       /\ SetCall(c, NoCall)
       /\ UNCHANGED <<recurring, today>>

\* The transaction the two requests are about.
CreateForRace ==
    /\ nextId = 1
    /\ Create(1, -50, 20240115, "expense", NoPayee, NULL)

NextRace ==
    \/ CreateForRace
    \/ \E c \in Clients, i \in TxIds, a \in Accounts, t \in {"income", "expense"} : ReadForUpdate(c, i, a, 80, t)
    \/ \E c \in Clients : WriteUpdate(c)
    \/ \E c \in Clients, i \in TxIds : ReadForDelete(c, i)
    \/ \E c \in Clients : WriteDelete(c)

SpecRace == Init /\ [][NextRace]_vars

\* C29: when an update and a delete of the same transaction, or two updates,
\* interleave, the balance invariant holds once both have finished: an update
\* whose row was deleted after it read it returns False and changes no
\* balance, and two racing updates change the balance by the final stored
\* amount minus the original amount.
C29_RaceKeepsInvariant ==
    /\ [](session = NoSession => \A a \in Accounts : balance[a] = AccountSum(transactions, a))
    /\ [][\A c \in Clients :
            (WriteUpdate(c) /\ Calls[c].transaction_id \notin DOMAIN transactions) =>
                 (result' = Ok("update", 0) /\ balance' = balance)
         ]_vars

====
